---- MODULE Spec2Model ----
(***************************************************************************)
(* Model of simple_idempotency: the require_idempotency_key decorator      *)
(* (decorators.py), the lock classes (locks.py), the key storages          *)
(* (storages.py), the helpers (utils.py) and the defaults (settings.py).   *)
(*                                                                         *)
(* One coordinator invocation (wrapped_view) per request; requests run as  *)
(* concurrent threads and interleave at the lock acquisition, the storage  *)
(* lookup, the view call, the storage write and the lock release.          *)
(*                                                                         *)
(* Python's None is the empty sequence, a present value v is <<v>>.        *)
(***************************************************************************)
EXTENDS FiniteSets, Integers, Sequences, TLC

None == <<>>
Some(v) == <<v>>
Val(o) == o[1]

(* ------------------------------ bounds --------------------------------- *)

\* Number of requests (threads) in one behaviour.
NReq == 2

Reqs == 1..NReq

(* ------------------------- settings.py DEFAULTS ------------------------ *)

\* Mutant: GET is left out of the safe methods.
SAFE_METHODS_without_GET == {"HEAD", "OPTIONS", "TRACE"}

SAFE_METHODS == {"GET", "HEAD", "OPTIONS", "TRACE"}

LockClasses == {"ThreadLock", "RedisLock"}

StorageClasses == {"CacheKeyStorage", "MemoryKeyStorage"}

DEFAULT_LOCK_CLASS == "ThreadLock"

DEFAULT_STORAGE_CLASS == "CacheKeyStorage"

\* timedelta(minutes=10)
STORAGE_CACHE_TIMEOUT == 10

\* timedelta(minutes=5)
LOCK_TTL == 5

BAD_RESPONSE_STATUS_CODE == 400

\* Time advances in steps of one lock lease.
TimeStep == LOCK_TTL

(* --------------------------- request inputs ---------------------------- *)

Methods == {"GET", "POST"}

\* request.META.get(HEADER): None when the header is absent.
HeaderValues == {None, Some(""), Some("a"), Some("a/b")}

Paths == {"/c", "/b/c"}

\* str(getattr(request.user, "id", "")).
UserIds == {"", "1"}

Bodies == {"x", "y"}

\* The keyword arguments of the call: a sequence of <<name, value>> pairs.
KwargSets == {<<>>, << <<"pk", "5">> >>}

\* A POST to one route by one caller, with a key, a body and no ViewSet.
BaseRequest ==
    [method |-> "POST", header |-> Some("a"), path |-> "/c", user |-> "",
     body |-> "x", view_set |-> FALSE, kwargs |-> <<>>]

RequestFields == {"method", "header", "path", "user", "body", "view_set", "kwargs"}

\* Safe requests: every header and call shape.
SafeInputs ==
    { [BaseRequest EXCEPT !.method = "GET", !.header = h, !.kwargs = kw] :
        h \in {None, Some(""), Some("a")}, kw \in KwargSets }

\* Non-safe requests without a usable key.
UnkeyedInputs == { [BaseRequest EXCEPT !.header = h] : h \in {None, Some("")} }

\* Non-safe requests with a key: the base request and every request that
\* differs from it in one field.
KeyedInputs ==
    { q \in [method : {"POST"}, header : {Some("a"), Some("a/b")}, path : Paths,
             user : UserIds, body : Bodies, view_set : BOOLEAN,
             kwargs : KwargSets] :
        Cardinality({f \in RequestFields : q[f] # BaseRequest[f]}) <= 1 }

RequestInputs == SafeInputs \cup UnkeyedInputs \cup KeyedInputs

\* The requests of the behaviours about keys: the base request, the same
\* with another body, a ViewSet action called with another key, and a safe
\* request.
CoreInputs ==
    { BaseRequest,
      [BaseRequest EXCEPT !.body = "y"],
      [BaseRequest EXCEPT !.header = Some("a/b"), !.view_set = TRUE],
      [BaseRequest EXCEPT !.method = "GET"] }

\* The requests of the behaviours about status codes: one key, two bodies
\* and one safe request.
StatusInputs ==
    { BaseRequest,
      [BaseRequest EXCEPT !.body = "y"],
      [BaseRequest EXCEPT !.method = "GET"] }

\* The requests of the behaviours about requests that bypass the key logic:
\* every safe request, every request without a key, and the base request.
BypassInputs == SafeInputs \cup UnkeyedInputs \cup {BaseRequest}

\* The requests of the behaviours about the lock lease: one key with two
\* bodies, and a ViewSet action called with another key.
LeaseInputs ==
    { BaseRequest,
      [BaseRequest EXCEPT !.body = "y"],
      [BaseRequest EXCEPT !.header = Some("a/b"), !.view_set = TRUE] }

\* The requests of the behaviours about cache keys: the base request, the
\* requests that differ from it in the key, in the route or in the caller,
\* and a safe request.
KeyInputs ==
    { BaseRequest,
      [BaseRequest EXCEPT !.header = Some("a/b")],
      [BaseRequest EXCEPT !.path = "/b/c"],
      [BaseRequest EXCEPT !.user = "1"],
      [BaseRequest EXCEPT !.method = "GET"] }

\* The requests of the behaviours about the ways an invocation ends: a
\* request with a key, the same with another body, a request without a key
\* and a safe request.
TerminalInputs ==
    { BaseRequest,
      [BaseRequest EXCEPT !.body = "y"],
      [BaseRequest EXCEPT !.header = None],
      [BaseRequest EXCEPT !.method = "GET"] }

NoRequest ==
    [method |-> "", header |-> None, path |-> "", user |-> "", body |-> "",
     view_set |-> FALSE, kwargs |-> <<>>]

(* ------------------------------- utils.py ------------------------------ *)

\* hashlib.sha256(...).hexdigest(), taken as injective on its input.
Sha256(bytes) == <<"sha256", bytes>>

get_cache_key(request, idempotency_key) ==
    Sha256(idempotency_key \o request.path \o request.method \o request.user)

\* Mutant: the upper end of the success range is not checked.
is_success_unbounded(code) == 200 <= code

is_success(code) == 200 <= code /\ code <= 299

MISSING_MESSAGE == "Idempotency key is missing."

CONFLICT_MESSAGE == "You've already used this idempotency key."

\* Mutant: the configured status code is not passed to JsonResponse.
bad_response_default_status(message) ==
    [status_code |-> 200, headers |-> "application/json",
     content |-> <<"error", message>>, rendered |-> "n/a"]

\* JsonResponse({"error": message}, status=BAD_RESPONSE_STATUS_CODE)
bad_response(message) ==
    [status_code |-> BAD_RESPONSE_STATUS_CODE, headers |-> "application/json",
     content |-> <<"error", message>>, rendered |-> "n/a"]

(* ----------------------------- the handler ----------------------------- *)

\* Status codes the wrapped view answers with: both ends of the success
\* range and the codes next to them.
StatusCodes == {199, 200, 299, 300}

\* A success and a failure.
CoreStatusCodes == {200, 300}

\* A view that answers with a success or raises.
SuccessStatusCodes == {200}

\* args of wrapped_view: (HttpRequest,) or (ViewSet, HttpRequest).
Args(request) ==
    IF request.view_set THEN <<"view_set", "request">> ELSE <<"request">>

\* The names of a kwargs dict, in order: what *kwargs unpacks to.
RECURSIVE KwargNames(_)
KwargNames(kwargs) ==
    IF kwargs = <<>> THEN <<>>
    ELSE <<Head(kwargs)[1]>> \o KwargNames(Tail(kwargs))

\* The response of view_func called by request r with positional arguments
\* pos and keyword arguments kw.  A ViewSet action answers with a
\* renderable response, a plain view with an HttpResponse.
ViewResponse(r, pos, kw, status) ==
    [status_code |-> status, headers |-> "text/html",
     content |-> <<"view", r, pos, kw>>,
     rendered |-> IF Head(pos) = "view_set" THEN "no" ELSE "n/a"]

\* view_set.finalize_response(request, response)
finalize_response(response) == [response EXCEPT !.headers = "finalized"]

\* hasattr(response, "render")
has_render(response) == response.rendered # "n/a"

\* response.render(): renders in place and returns the response itself.
render(response) == [response EXCEPT !.rendered = "yes"]

(* ------------------------------ storages.py ---------------------------- *)

\* pickle.dumps((request_body_hash, response)): the byte string, field by field.
pickle_dumps(value) ==
    <<"pickle", value[1], value[2].status_code, value[2].headers,
      value[2].content, value[2].rendered>>

\* Mutant: the headers of the response do not survive the round trip.
pickle_loads_without_headers(bytes) ==
    <<bytes[2], [status_code |-> bytes[3], headers |-> "",
                 content |-> bytes[5], rendered |-> bytes[6]]>>

pickle_loads(bytes) ==
    <<bytes[2], [status_code |-> bytes[3], headers |-> bytes[4],
                 content |-> bytes[5], rendered |-> bytes[6]]>>

\* Every cache key a request of the model can derive.
CacheKeys ==
    { get_cache_key(q, Val(q.header)) :
        q \in {x \in RequestInputs : x.header \notin {None, Some("")}} }

\* Mutant: a cache entry never expires.
CacheLiveUnaged(entry) == entry # None

\* A django cache entry is readable while its age is below its timeout.
CacheLive(entry) == entry # None /\ Val(entry).age < Val(entry).timeout

\* The object STORAGE_CLASS() constructs for request r: MemoryKeyStorage
\* builds a new dict in __init__, on every construction.
MemoryStorageObject(r) == <<"MemoryKeyStorage", r>>

(* ------------------------------- locks.py ------------------------------ *)

\* Mutant: one lock name for every cache key.
LockNameShared(key) == <<"Idempotency_", "">>

\* f"Idempotency_{key}"
LockName(key) == <<"Idempotency_", key>>

\* ThreadLock.lock ignores its arguments and returns threading.RLock(): a
\* new lock object on every call.
ThreadLockObject(r, name) == <<"RLock", <<"call", r>> >>

\* Mutant: a lease has run out as soon as it is granted.
LeaseLiveNever(l) == FALSE

\* Mutant: a lease never runs out.
LeaseLiveForever(l) == TRUE

\* A redis lock key exists until its lease (timeout=LOCK_TTL) has run out.
LeaseLive(l) == l.age < l.timeout

(* -------------------------------- state -------------------------------- *)

VARIABLES
    lockClass,         \* idempotency_settings.LOCK_CLASS
    storageClass,      \* idempotency_settings.STORAGE_CLASS
    pc,                \* where each request is in wrapped_view
    req,               \* the request each invocation was called with
    before,            \* the requests that had returned when this one was sent
    rlocks,            \* threading.RLock objects that are held: <<object, owner>>
    redisLocks,        \* redis lock keys: [name, token, age, timeout]
    cache,             \* caches[STORAGE_CACHE_NAME]: key -> [value, age, timeout]
    memory,            \* MemoryKeyStorage._cache dicts: <<object, key, value>>
    value_from_cache,  \* local of wrapped_view
    response,          \* local of wrapped_view
    returned,          \* what wrapped_view returned
    raised,            \* the exception wrapped_view raised
    call,              \* the call of view_func this invocation made
    log,               \* the operations this invocation performed, in order
    inputs,            \* the requests that may be sent in this behaviour
    statuses           \* the status codes the view may answer with

vars ==
    <<lockClass, storageClass, pc, req, before, rlocks, redisLocks, cache,
      memory, value_from_cache, response, returned, raised, call, log, inputs,
      statuses>>

Key(r) == get_cache_key(req[r], Val(req[r].header))

request_body_hash(r) == Sha256(req[r].body)

InitWith(locks, storages, universe, codes) ==
    /\ lockClass \in locks
    /\ storageClass \in storages
    /\ inputs = universe
    /\ statuses = codes
    /\ pc = [r \in Reqs |-> "idle"]
    /\ req = [r \in Reqs |-> NoRequest]
    /\ before = [r \in Reqs |-> {}]
    /\ rlocks = {}
    /\ redisLocks = {}
    /\ cache = [k \in CacheKeys |-> None]
    /\ memory = {}
    /\ value_from_cache = [r \in Reqs |-> None]
    /\ response = [r \in Reqs |-> None]
    /\ returned = [r \in Reqs |-> None]
    /\ raised = [r \in Reqs |-> None]
    /\ call = [r \in Reqs |-> None]
    /\ log = [r \in Reqs |-> <<>>]

Init == InitWith(LockClasses, StorageClasses, CoreInputs, CoreStatusCodes)

InitBypass ==
    InitWith(LockClasses, StorageClasses, BypassInputs, CoreStatusCodes)

InitStatus == InitWith(LockClasses, StorageClasses, StatusInputs, StatusCodes)

InitKeys == InitWith(LockClasses, StorageClasses, KeyInputs, CoreStatusCodes)

\* The shared store, with which an invocation can end in each of its ways.
InitTerminal ==
    InitWith(LockClasses, {"CacheKeyStorage"}, TerminalInputs, SuccessStatusCodes)

\* Requests that all wait for the lock of one cache key.
InitWait == InitWith({"RedisLock"}, StorageClasses, {BaseRequest}, CoreStatusCodes)

InitLease == InitWith({"RedisLock"}, StorageClasses, LeaseInputs, CoreStatusCodes)

(* ------------------- decorators.py: wrapped_view ----------------------- *)

Append1(f, r, op) == [f EXCEPT ![r] = Append(@, op)]

\* Mutant: the lookup is made without entering the lock.
PcAfterKeyUnlocked == "get"

\* Lines 36-37: with the cache key and the body hash computed, the
\* invocation goes on to enter the lock.
PcAfterKey == "lock"

\* Lines 12-33: the call of wrapped_view, up to the lock.  Requests are
\* numbered in the order they are sent.
Request(r, q) ==
    /\ pc[r] = "idle"
    /\ \A t \in Reqs : t < r => pc[t] # "idle"
    /\ req' = [req EXCEPT ![r] = q]
    /\ before' = [before EXCEPT ![r] = {t \in Reqs : pc[t] = "done"}]
    /\ IF q.method \in SAFE_METHODS
         THEN /\ pc' = [pc EXCEPT ![r] = "passthrough"]
              /\ UNCHANGED returned
         ELSE IF q.header \in {None, Some("")}
         THEN /\ pc' = [pc EXCEPT ![r] = "done"]
              /\ returned' = [returned EXCEPT ![r] = Some(bad_response(MISSING_MESSAGE))]
         ELSE /\ pc' = [pc EXCEPT ![r] = PcAfterKey]
              /\ UNCHANGED returned
    /\ UNCHANGED <<inputs, statuses, lockClass, storageClass, rlocks, redisLocks, cache, memory,
                   value_from_cache, response, raised, call, log>>

\* The positional and keyword arguments of the call on line 18:
\* view_func(*args, *kwargs).
PassthroughCall(request) ==
    [pos |-> Args(request) \o KwargNames(request.kwargs), kw |-> <<>>]

\* The positional and keyword arguments of the call on line 43:
\* view_func(*args, **kwargs).
ExecuteCall(request) == [pos |-> Args(request), kw |-> request.kwargs]

\* Line 18: a safe method calls the view and returns what it returns.
Passthrough(r) ==
    /\ pc[r] = "passthrough"
    /\ LET c == PassthroughCall(req[r]) IN
       /\ call' = [call EXCEPT ![r] = Some(c)]
       /\ log' = Append1(log, r, "view")
       /\ \/ \E status \in statuses :
               /\ returned' = [returned EXCEPT
                                 ![r] = Some(ViewResponse(r, c.pos, c.kw, status))]
               /\ UNCHANGED raised
          \/ /\ raised' = [raised EXCEPT ![r] = Some("ViewError")]
             /\ UNCHANGED returned
    /\ pc' = [pc EXCEPT ![r] = "done"]
    /\ UNCHANGED <<inputs, statuses, lockClass, storageClass, req, before, rlocks, redisLocks,
                   cache, memory, value_from_cache, response>>

\* Lines 36-37, ThreadLock: __enter__ of the lock object lock() returned.
\* It blocks while another thread owns that object.
AcquireThreadLock(r) ==
    /\ pc[r] = "lock"
    /\ lockClass = "ThreadLock"
    /\ LET obj == ThreadLockObject(r, LockName(Key(r))) IN
       /\ \A h \in rlocks : h[1] = obj => h[2] = r
       /\ rlocks' = rlocks \cup {<<obj, r>>}
    /\ pc' = [pc EXCEPT ![r] = "get"]
    /\ log' = Append1(log, r, "lock")
    /\ UNCHANGED <<inputs, statuses, lockClass, storageClass, req, before, redisLocks, cache,
                   memory, value_from_cache, response, returned, raised, call>>

\* Lines 36-37, RedisLock: __enter__ of redis.lock(name, timeout=LOCK_TTL,
\* blocking_timeout=None).  It blocks while the key exists, and sets it
\* with this lock's token and the lease.
AcquireRedisLock(r) ==
    /\ pc[r] = "lock"
    /\ lockClass = "RedisLock"
    /\ LET name == LockName(Key(r)) IN
       /\ \A l \in redisLocks : l.name = name => ~LeaseLive(l)
       /\ redisLocks' = {l \in redisLocks : l.name # name}
              \cup {[name |-> name, token |-> r, age |-> 0, timeout |-> LOCK_TTL]}
    /\ pc' = [pc EXCEPT ![r] = "get"]
    /\ log' = Append1(log, r, "lock")
    /\ UNCHANGED <<inputs, statuses, lockClass, storageClass, req, before, rlocks, cache,
                   memory, value_from_cache, response, returned, raised, call>>

\* CacheKeyStorage.get: None for an absent or expired entry, else the
\* unpickled value.
CacheKeyStorage_get(key) ==
    IF CacheLive(cache[key]) THEN Some(pickle_loads(Val(cache[key]).value))
    ELSE None

\* MemoryKeyStorage.get on the storage object obj: self._cache.get(key).
MemoryKeyStorage_get(obj, key) ==
    IF \E m \in memory : m[1] = obj /\ m[2] = key
    THEN Some((CHOOSE m \in memory : m[1] = obj /\ m[2] = key)[3])
    ELSE None

\* storage = STORAGE_CLASS(); storage.get(key)
storage_get(r, key) ==
    IF storageClass = "CacheKeyStorage" THEN CacheKeyStorage_get(key)
    ELSE MemoryKeyStorage_get(MemoryStorageObject(r), key)

\* Mutant: the cached response is returned without comparing the hashes.
ProcessCachedUncompared(r, value) == value[2]

\* Lines 63-72: what the request returns for a cached value.
ProcessCached(r, value) ==
    IF request_body_hash(r) = value[1] THEN value[2]
    ELSE bad_response(CONFLICT_MESSAGE)

\* Mutant: the returns for a cached value skip the release of the lock.
PcAfterHitUnreleased == "done"

\* Lines 67 and 69: a return inside the with block leaves it through the
\* lock's __exit__.
PcAfterHit == "exit"

\* Lines 39-42 and 63-72: the lookup, and on a hit the replay or the
\* rejection.
Get(r) ==
    /\ pc[r] = "get"
    /\ LET v == storage_get(r, Key(r)) IN
       /\ value_from_cache' = [value_from_cache EXCEPT ![r] = v]
       /\ IF v = None
            THEN /\ pc' = [pc EXCEPT ![r] = "view"]
                 /\ UNCHANGED returned
            ELSE /\ pc' = [pc EXCEPT ![r] = PcAfterHit]
                 /\ returned' = [returned EXCEPT ![r] = Some(ProcessCached(r, Val(v)))]
    /\ log' = Append1(log, r, "get")
    /\ UNCHANGED <<inputs, statuses, lockClass, storageClass, req, before, rlocks, redisLocks,
                   cache, memory, response, raised, call>>

\* Mutant: an exception of the view skips the release of the lock.
PcAfterRaiseUnreleased == "done"

\* Mutant: an exception of the view makes the invocation call it again.
PcAfterRaiseRetry == "view"

\* Line 37: an exception raised inside the with block leaves it through the
\* lock's __exit__.
PcAfterRaise == "exit"

\* Lines 43-51: the view is called; a ViewSet action's response is
\* finalized; a success goes on to be stored, anything else is returned.
Execute(r) ==
    /\ pc[r] = "view"
    /\ LET c == ExecuteCall(req[r]) IN
       /\ call' = [call EXCEPT ![r] = Some(c)]
       /\ log' = Append1(log, r, "view")
       /\ \/ \E status \in statuses :
               LET viewed == ViewResponse(r, c.pos, c.kw, status)
                   resp == IF req[r].view_set THEN finalize_response(viewed)
                           ELSE viewed
               IN /\ response' = [response EXCEPT ![r] = Some(resp)]
                  /\ IF is_success(resp.status_code)
                       THEN /\ pc' = [pc EXCEPT ![r] = "set"]
                            /\ UNCHANGED returned
                       ELSE /\ pc' = [pc EXCEPT ![r] = "exit"]
                            /\ returned' = [returned EXCEPT ![r] = Some(resp)]
                  /\ UNCHANGED raised
          \/ /\ raised' = [raised EXCEPT ![r] = Some("ViewError")]
             /\ pc' = [pc EXCEPT ![r] = PcAfterRaise]
             /\ UNCHANGED <<response, returned>>
    /\ UNCHANGED <<inputs, statuses, lockClass, storageClass, req, before, rlocks, redisLocks,
                   cache, memory, value_from_cache>>

\* Mutant: a key that has an entry keeps the entry's body hash, and only the
\* response is replaced.
CacheKeyStorage_set_response_only(key, value) ==
    LET kept == IF cache[key] = None THEN value[1] ELSE Val(cache[key]).value[2]
    IN [cache EXCEPT ![key] = Some([value |-> pickle_dumps(<<kept, value[2]>>),
                                    age |-> 0,
                                    timeout |-> STORAGE_CACHE_TIMEOUT])]

\* CacheKeyStorage.set: the pickled value, with timeout=STORAGE_CACHE_TIMEOUT.
CacheKeyStorage_set(key, value) ==
    [cache EXCEPT ![key] = Some([value |-> pickle_dumps(value), age |-> 0,
                                 timeout |-> STORAGE_CACHE_TIMEOUT])]

\* MemoryKeyStorage.set on the storage object obj: self._cache[key] = value.
MemoryKeyStorage_set(obj, key, value) ==
    {m \in memory : ~(m[1] = obj /\ m[2] = key)} \cup {<<obj, key, value>>}

\* Lines 52-61: the body hash and the rendered response are stored, and the
\* response (rendered in place) is returned.
Set(r) ==
    /\ pc[r] = "set"
    /\ LET resp == IF has_render(Val(response[r])) THEN render(Val(response[r]))
                   ELSE Val(response[r])
           value == <<request_body_hash(r), resp>>
       IN /\ IF storageClass = "CacheKeyStorage"
               THEN /\ cache' = CacheKeyStorage_set(Key(r), value)
                    /\ UNCHANGED memory
               ELSE /\ memory' = MemoryKeyStorage_set(MemoryStorageObject(r), Key(r), value)
                    /\ UNCHANGED cache
          /\ response' = [response EXCEPT ![r] = Some(resp)]
          /\ returned' = [returned EXCEPT ![r] = Some(resp)]
    /\ pc' = [pc EXCEPT ![r] = "exit"]
    /\ log' = Append1(log, r, "set")
    /\ UNCHANGED <<inputs, statuses, lockClass, storageClass, req, before, rlocks, redisLocks,
                   value_from_cache, raised, call>>

\* Line 37, __exit__ of the RLock: the owner releases it.
ReleaseThreadLock(r) ==
    /\ pc[r] = "exit"
    /\ lockClass = "ThreadLock"
    /\ rlocks' = {h \in rlocks : h[2] # r}
    /\ pc' = [pc EXCEPT ![r] = "done"]
    /\ log' = Append1(log, r, "unlock")
    /\ UNCHANGED <<inputs, statuses, lockClass, storageClass, req, before, redisLocks, cache,
                   memory, value_from_cache, response, returned, raised, call>>

\* The redis key of request r's lock still carries r's token.
OwnsLease(r) ==
    \E l \in redisLocks : l.name = LockName(Key(r)) /\ l.token = r /\ LeaseLive(l)

\* Line 37, __exit__ of the redis lock: release() deletes the key when it
\* still carries this lock's token and raises LockNotOwnedError otherwise.
ReleaseRedisLock(r) ==
    /\ pc[r] = "exit"
    /\ lockClass = "RedisLock"
    /\ IF OwnsLease(r)
         THEN /\ redisLocks' = {l \in redisLocks : l.name # LockName(Key(r))}
              /\ UNCHANGED <<returned, raised>>
         ELSE /\ raised' = [raised EXCEPT ![r] = Some("LockNotOwnedError")]
              /\ returned' = [returned EXCEPT ![r] = None]
              /\ UNCHANGED redisLocks
    /\ pc' = [pc EXCEPT ![r] = "done"]
    /\ log' = Append1(log, r, "unlock")
    /\ UNCHANGED <<inputs, statuses, lockClass, storageClass, req, before, rlocks, cache,
                   memory, value_from_cache, response, call>>

\* Time passes: cache entries and lock leases age, up to their timeouts.
Aged(e) ==
    [e EXCEPT !.age = IF @ + TimeStep > e.timeout THEN e.timeout ELSE @ + TimeStep]

Tick ==
    /\ \/ \E k \in CacheKeys : CacheLive(cache[k])
       \/ \E l \in redisLocks : LeaseLive(l)
    /\ cache' = [k \in CacheKeys |->
                   IF cache[k] = None THEN None ELSE Some(Aged(Val(cache[k])))]
    /\ redisLocks' = {Aged(l) : l \in redisLocks}
    /\ UNCHANGED <<inputs, statuses, lockClass, storageClass, pc, req, before, rlocks, memory,
                   value_from_cache, response, returned, raised, call, log>>

Next ==
    \/ \E r \in Reqs : \E q \in inputs : Request(r, q)
    \/ \E r \in Reqs : Passthrough(r)
    \/ \E r \in Reqs : AcquireThreadLock(r)
    \/ \E r \in Reqs : AcquireRedisLock(r)
    \/ \E r \in Reqs : Get(r)
    \/ \E r \in Reqs : Execute(r)
    \/ \E r \in Reqs : Set(r)
    \/ \E r \in Reqs : ReleaseThreadLock(r)
    \/ \E r \in Reqs : ReleaseRedisLock(r)
    \/ Tick

Spec == Init /\ [][Next]_vars

SpecBypass == InitBypass /\ [][Next]_vars

SpecStatus == InitStatus /\ [][Next]_vars

SpecKeys == InitKeys /\ [][Next]_vars

\* Every view call returns or raises, time passes, a blocking acquire keeps
\* trying and every worker goes on.  Nothing obliges a request to be sent.
FairWorkers ==
    /\ WF_vars(Tick)
    /\ \A r \in Reqs :
         /\ WF_vars(Passthrough(r))
         /\ WF_vars(AcquireThreadLock(r))
         /\ WF_vars(AcquireRedisLock(r))
         /\ WF_vars(Get(r))
         /\ WF_vars(Execute(r))
         /\ WF_vars(Set(r))
         /\ WF_vars(ReleaseThreadLock(r))
         /\ WF_vars(ReleaseRedisLock(r))

SpecTerminal == InitTerminal /\ [][Next]_vars /\ FairWorkers

\* Line 43, when view_func never returns: the worker hangs or dies inside the
\* with block, takes no further step and never calls the lock's __exit__.
Stall(r) ==
    /\ pc[r] = "view"
    /\ pc' = [pc EXCEPT ![r] = "stalled"]
    /\ UNCHANGED <<inputs, statuses, lockClass, storageClass, req, before, rlocks, redisLocks,
                   cache, memory, value_from_cache, response, returned, raised, call, log>>

\* The steps under RedisLock, with holders that may stall.
NextLease ==
    \/ \E r \in Reqs : \E q \in inputs : Request(r, q)
    \/ \E r \in Reqs : AcquireRedisLock(r)
    \/ \E r \in Reqs : Get(r)
    \/ \E r \in Reqs : Execute(r)
    \/ \E r \in Reqs : Stall(r)
    \/ \E r \in Reqs : Set(r)
    \/ \E r \in Reqs : ReleaseRedisLock(r)
    \/ Tick

\* Time passes; a blocking acquire (blocking_timeout=None) keeps trying; a
\* worker that has not stalled goes on.  Nothing obliges a request to be
\* sent or a view to return.
FairLease ==
    /\ WF_vars(Tick)
    /\ \A r \in Reqs :
         /\ WF_vars(AcquireRedisLock(r))
         /\ WF_vars(Get(r))
         /\ WF_vars(Execute(r))
         /\ WF_vars(Set(r))
         /\ WF_vars(ReleaseRedisLock(r))

SpecLease == InitLease /\ [][NextLease]_vars /\ FairLease

SpecWait == InitWait /\ [][NextLease]_vars /\ FairLease

(* ======================================================================= *)
(*                               Properties                                *)
(* ======================================================================= *)

Done(r) == pc[r] = "done"

Did(r, op) == \E i \in DOMAIN log[r] : log[r][i] = op

ViewCalls(r) == Cardinality({i \in DOMAIN log[r] : log[r][i] = "view"})

\* The call has returned a response (it did not end in an exception).
Returned(r) == Done(r) /\ returned[r] # None

SafeMethod(m) == m \in {"GET", "HEAD", "OPTIONS", "TRACE"}

\* A request that has been sent, is non-safe and carries a key.
KeyedReq(r) ==
    /\ pc[r] # "idle"
    /\ ~SafeMethod(req[r].method)
    /\ req[r].header \notin {None, Some("")}

\* Same route, method, caller and idempotency key.
SameTuple(p, q) ==
    /\ req[p].method = req[q].method
    /\ req[p].header = req[q].header
    /\ req[p].path = req[q].path
    /\ req[p].user = req[q].user

\* No request other than p and q has used p's cache key.
Alone(p, q) ==
    \A t \in Reqs \ {p, q} : ~(KeyedReq(t) /\ Key(t) = Key(p))

Status2xx(resp) == resp.status_code \in 200..299

\* The request whose view call produced a pickled record.
Writer(bytes) == bytes[5][2]

\* The shared cache holds, unexpired, the record request p wrote.
HoldsRecordOf(p) ==
    /\ cache[Key(p)] # None
    /\ Val(cache[Key(p)]).age < STORAGE_CACHE_TIMEOUT
    /\ Writer(Val(cache[Key(p)]).value) = p

\* Request r holds no lock: no RLock it owns, no redis key with its token
\* whose lease is running.
NoLockHeld(r) ==
    /\ \A h \in rlocks : h[2] # r
    /\ \A l \in redisLocks : l.token = r => l.age >= LOCK_TTL

(* ------------------------------- C1 ------------------------------------ *)

\* q repeats p (same request, same body) after p has returned a response,
\* on the shared cache, nobody else has used the key, and p's record, if
\* there is one, has not expired.
C1_Pair(p, q) ==
    /\ p # q
    /\ storageClass = "CacheKeyStorage"
    /\ KeyedReq(p)
    /\ req[q] = req[p]
    /\ p \in before[q]
    /\ Alone(p, q)
    /\ Returned(p)
    /\ cache[Key(p)] = None \/ HoldsRecordOf(p)

C1_Replayed(p, q) ==
    /\ ViewCalls(p) = 1
    /\ ViewCalls(q) = 0
    /\ Returned(q) => returned[q] = returned[p]

\* C1 as stated: whenever a non-safe request with a key is repeated with the
\* same body after the first call returned and within the storage TTL
\* (CacheKeyStorage), the second call returns the first call's response and
\* the view is called exactly once over the two calls.
C1_ReplayAlways ==
    \A p, q \in Reqs : C1_Pair(p, q) => C1_Replayed(p, q)

\* C1 amended: the same, provided the first call's response had a 2xx status.
C1_ReplayAfterSuccess ==
    \A p, q \in Reqs :
        (C1_Pair(p, q) /\ Status2xx(Val(returned[p]))) => C1_Replayed(p, q)

C1_Witness ==
    \E p, q \in Reqs :
        /\ C1_Pair(p, q)
        /\ Status2xx(Val(returned[p]))
        /\ Returned(q)
        /\ Did(q, "get")
        /\ req[p].view_set

(* ------------------------------- C2 ------------------------------------ *)

\* p and q carry the same request on a fresh key, neither was sent after
\* the other had returned, and both returned a 2xx response.
C2_Concurrent(p, q) ==
    /\ p # q
    /\ KeyedReq(p)
    /\ req[q] = req[p]
    /\ p \notin before[q]
    /\ q \notin before[p]
    /\ Alone(p, q)
    /\ Returned(p) /\ Status2xx(Val(returned[p]))
    /\ Returned(q) /\ Status2xx(Val(returned[q]))

\* C2, for the default configuration (ThreadLock, CacheKeyStorage): requests
\* that run concurrently with the same fresh cache key and the same body
\* call the view exactly once in total and return the same response.
C2_SingleFlight ==
    (lockClass = DEFAULT_LOCK_CLASS /\ storageClass = DEFAULT_STORAGE_CLASS) =>
        \A p, q \in Reqs :
            C2_Concurrent(p, q) =>
                /\ ViewCalls(p) + ViewCalls(q) = 1
                /\ returned[p] = returned[q]

(* ------------------------------- C3 ------------------------------------ *)

\* q reuses p's key on the same route, method and caller with another body,
\* after p returned; nobody else has used the key and the result store
\* still holds the record p stored.
C3_Pair(p, q) ==
    /\ p # q
    /\ KeyedReq(p) /\ KeyedReq(q)
    /\ SameTuple(p, q)
    /\ req[q].body # req[p].body
    /\ p \in before[q]
    /\ Alone(p, q)
    /\ Did(p, "set")
    /\ storageClass = "CacheKeyStorage"
    /\ HoldsRecordOf(p)

ViewRaised(p) == KeyedReq(p) /\ call[p] # None /\ response[p] = None

\* No storage holds a record for cache key k.
NoRecord(k) == cache[k] = None /\ \A m \in memory : m[2] # k

\* C4: when the view raises in a first execution, the call ends in an
\* exception and returns nothing, it has written no record (none exists for
\* the key when no other request used it), it holds no lock once it has
\* ended, and a later request with the same key and body finds the lock
\* free, misses and calls the view again.
C4_FailureNotCached ==
    \A p \in Reqs :
        ViewRaised(p) =>
            /\ raised[p] # None /\ returned[p] = None
            /\ ~Did(p, "set")
            /\ Done(p) => NoLockHeld(p)
            /\ Alone(p, p) => NoRecord(Key(p))
            /\ \A q \in Reqs \ {p} :
                 (req[q] = req[p] /\ p \in before[q] /\ Alone(p, q)) =>
                     /\ \A l \in redisLocks :
                          (pc[q] = "lock" /\ l.name = LockName(Key(q))) => l.age >= LOCK_TTL
                     /\ Did(q, "get") => value_from_cache[q] = None
                     /\ pc[q] \in {"set", "exit", "done"} => ViewCalls(q) = 1

C4_Witness ==
    \E p, q \in Reqs :
        /\ p # q /\ ViewRaised(p) /\ req[q] = req[p] /\ p \in before[q]
        /\ Done(q) /\ ViewCalls(q) = 1

(* ------------------------------- C5 ------------------------------------ *)

\* The view answered request p's first execution with a non-2xx status.
ViewFailed(p) ==
    KeyedReq(p) /\ response[p] # None /\ ~Status2xx(Val(response[p]))

\* C5: every stored record carries a 2xx response, the one the view returned
\* to the request that wrote it; a first execution answered with another
\* status returns that response and writes nothing, and a later request
\* with the same cache key, whatever its body, calls the view again.
C5_OnlySuccessStored ==
    /\ \A k \in CacheKeys :
         cache[k] # None =>
             /\ Val(cache[k]).value[3] \in 200..299
             /\ Val(response[Writer(Val(cache[k]).value)]).status_code
                    = Val(cache[k]).value[3]
    /\ \A m \in memory : m[3][2].status_code \in 200..299
    /\ \A p \in Reqs :
         ViewFailed(p) =>
             /\ ~Did(p, "set")
             /\ Returned(p) => returned[p] = response[p]
             /\ Alone(p, p) => NoRecord(Key(p))
             /\ \A q \in Reqs \ {p} :
                  (KeyedReq(q) /\ Key(q) = Key(p) /\ p \in before[q] /\ Alone(p, q)) =>
                      /\ Did(q, "get") => value_from_cache[q] = None
                      /\ pc[q] \in {"set", "exit", "done"} => ViewCalls(q) = 1

C5_Witness ==
    \E p, q \in Reqs :
        /\ p # q /\ ViewFailed(p) /\ Returned(p)
        /\ Val(returned[p]).status_code = 300
        /\ KeyedReq(q) /\ Key(q) = Key(p) /\ req[q].body # req[p].body
        /\ p \in before[q] /\ Returned(q) /\ Did(q, "set")

(* ------------------------------- C6 ------------------------------------ *)

\* A non-safe request without an idempotency-key header.
MissingKey(r) ==
    pc[r] # "idle" /\ ~SafeMethod(req[r].method) /\ req[r].header = None

\* C6: a non-safe request without the header returns the bad response with
\* the missing-key message and the configured status code; it calls no
\* view, takes no lock and neither reads nor writes the result store.
C6_MissingKey ==
    \A r \in Reqs :
        MissingKey(r) =>
            /\ Done(r)
            /\ raised[r] = None
            /\ returned[r] # None
            /\ Val(returned[r]).status_code = BAD_RESPONSE_STATUS_CODE
            /\ Val(returned[r]).content = <<"error", MISSING_MESSAGE>>
            /\ log[r] = <<>>
            /\ call[r] = None
            /\ value_from_cache[r] = None
            /\ NoLockHeld(r)

C6_Witness ==
    \E r, t \in Reqs :
        /\ MissingKey(r) /\ Done(r)
        /\ KeyedReq(t) /\ Did(t, "set") /\ t \in before[r]

(* ------------------------------- C7 ------------------------------------ *)

SafeReq(r) == pc[r] # "idle" /\ SafeMethod(req[r].method)

\* C7: a request with a safe method calls the view exactly once and returns
\* what the view returned (or ends in the view's exception), whatever its
\* idempotency-key header; it takes no lock and neither reads nor writes the
\* result store.
C7_SafePassthrough ==
    \A r \in Reqs :
        SafeReq(r) =>
            /\ pc[r] \in {"passthrough", "done"}
            /\ \A i \in DOMAIN log[r] : log[r][i] = "view"
            /\ value_from_cache[r] = None
            /\ NoLockHeld(r)
            /\ \A m \in memory : m[1] # MemoryStorageObject(r)
            /\ \A k \in CacheKeys : cache[k] # None => Writer(Val(cache[k]).value) # r
            /\ Done(r) =>
                 /\ ViewCalls(r) = 1
                 /\ (returned[r] = None) # (raised[r] = None)
                 /\ raised[r] # None => raised[r] = Some("ViewError")
                 /\ returned[r] # None =>
                      /\ Val(returned[r]).content[1] = "view"
                      /\ Val(returned[r]).content[2] = r
                      /\ Val(returned[r]).status_code \in statuses

C7_Witness ==
    \E r, t \in Reqs :
        /\ SafeReq(r) /\ Returned(r) /\ req[r].header = Some("a")
        /\ KeyedReq(t) /\ req[t].header = Some("a") /\ HoldsRecordOf(t)
        /\ t \in before[r]

(* ------------------------------- C8 ------------------------------------ *)

\* C8: an invocation that has ended holds no lock, whichever way it ended:
\* first execution (stored or not), replay, conflict or an exception of the
\* view; and every invocation that took the lock released it as its last step.
C8_LockReleased ==
    \A r \in Reqs :
        Done(r) =>
            /\ NoLockHeld(r)
            /\ Did(r, "lock") => log[r][Len(log[r])] = "unlock"

\* Under RedisLock one request has ended in the view's exception and
\* another after storing its response.
C8_Witness ==
    \E p, q \in Reqs :
        /\ p # q /\ Done(p) /\ Done(q)
        /\ ViewRaised(p)
        /\ Did(q, "lock") /\ Did(q, "set")
        /\ lockClass = "RedisLock"

(* ------------------------------- C9 ------------------------------------ *)

\* C9, for the default configuration: while an unexpired record is stored
\* for a cache key, no step replaces it or changes its content hash or its
\* stored response.
C9_RecordImmutable ==
    [][ (lockClass = DEFAULT_LOCK_CLASS /\ storageClass = DEFAULT_STORAGE_CLASS) =>
          \A k \in CacheKeys :
              (cache[k] # None /\ Val(cache[k]).age < STORAGE_CACHE_TIMEOUT) =>
                  /\ cache'[k] # None
                  /\ Val(cache'[k]).value = Val(cache[k]).value ]_vars

(* ------------------------------- C10 ----------------------------------- *)

\* Request r is inside the section guarded by its lock.
InSection(r) == pc[r] \in {"get", "view", "set", "exit"}

\* C10: under ThreadLock at most one thread at a time is inside the section
\* guarded by the lock of one name.
C10_ThreadLockExcludes ==
    lockClass = "ThreadLock" =>
        \A p, q \in Reqs :
            (p # q /\ InSection(p) /\ InSection(q)) =>
                LockName(Key(p)) # LockName(Key(q))

(* ------------------------------- C11 ----------------------------------- *)

\* p and q are requests for one cache key and neither was sent after the
\* other had returned.
C11_Concurrent(p, q) ==
    /\ p # q
    /\ KeyedReq(p) /\ KeyedReq(q)
    /\ Key(p) = Key(q)
    /\ p \notin before[q]
    /\ q \notin before[p]

\* C11, for the default configuration: of two concurrent requests with one
\* cache key, the one that takes the lock second looks up only after the
\* other has left its critical section; so the two are never both inside
\* their critical sections with both lookups made.
C11_SerializedVisibility ==
    (lockClass = DEFAULT_LOCK_CLASS /\ storageClass = DEFAULT_STORAGE_CLASS) =>
        \A p, q \in Reqs :
            C11_Concurrent(p, q) =>
                ~(InSection(p) /\ InSection(q) /\ Did(p, "get") /\ Did(q, "get"))

(* ------------------------------- C12 ----------------------------------- *)

\* C12: with MemoryKeyStorage, a request sent after a request with the same
\* cache key has stored its record and returned finds that record in its
\* lookup and does not call the view.
C12_MemoryKeepsRecords ==
    storageClass = "MemoryKeyStorage" =>
        \A p, q \in Reqs :
            ( /\ p # q
              /\ KeyedReq(p) /\ KeyedReq(q)
              /\ Key(q) = Key(p)
              /\ Did(p, "set")
              /\ p \in before[q]
              /\ Did(q, "get") ) =>
                /\ value_from_cache[q] # None
                /\ ViewCalls(q) = 0

(* ------------------------------- C13 ----------------------------------- *)

\* Request r makes its lookup in this step.
LooksUp(r) == pc[r] = "get" /\ pc'[r] # "get"

\* A record for cache key k was written and has since reached the storage
\* TTL.  Ages stop at the timeout: an age equal to it stands for any age
\* from the timeout on.
RecordExpired(k) ==
    /\ storageClass = "CacheKeyStorage"
    /\ cache[k] # None
    /\ Val(cache[k]).age >= STORAGE_CACHE_TIMEOUT

\* A record for cache key k was written less than the storage TTL ago.
\* MemoryKeyStorage keeps no write times; under ThreadLock no time passes
\* in a behaviour that uses it, so every record of a dict is young.
RecordYoung(k) ==
    \/ /\ storageClass = "CacheKeyStorage"
       /\ cache[k] # None
       /\ Val(cache[k]).age < STORAGE_CACHE_TIMEOUT
    \/ /\ storageClass = "MemoryKeyStorage"
       /\ lockClass = "ThreadLock"
       /\ \E m \in memory : m[2] = k

\* The lookups of this step treat an expired record as a miss (the request
\* goes on to call the view, whatever its body, and nothing is returned yet)
\* and a young record as a hit (the request returns without calling the view).
ExpiryRespected ==
    \A r \in Reqs :
        LooksUp(r) =>
            /\ RecordExpired(Key(r)) =>
                 /\ value_from_cache'[r] = None
                 /\ pc'[r] = "view"
                 /\ returned'[r] = None
            /\ RecordYoung(Key(r)) =>
                 /\ value_from_cache'[r] # None
                 /\ pc'[r] = "exit"
                 /\ returned'[r] # None

Stalled(r) == pc[r] = "stalled"

\* C14: with RedisLock, every request that waits for a lock is eventually
\* granted it, also when the holder has stalled and never releases it, and
\* every request that was granted a lock ends unless its own view never
\* returns.
C14_NoPermanentDeadlock ==
    \A r \in Reqs :
        /\ (lockClass = "RedisLock" /\ pc[r] = "lock") ~> Did(r, "lock")
        /\ (lockClass = "RedisLock" /\ Did(r, "lock")) ~> (Done(r) \/ Stalled(r))

\* p stalled holding the lock of the key and never released it; q, the only
\* other request for that key, took over the lock and has ended.
C14_Witness ==
    \E p, q \in Reqs :
        /\ p # q
        /\ lockClass = "RedisLock"
        /\ Stalled(p)
        /\ KeyedReq(q) /\ Key(q) = Key(p)
        /\ Alone(p, q)
        /\ \A l \in redisLocks : l.token # p
        /\ Did(q, "lock") /\ Done(q)

(* ------------------------------- C15 ----------------------------------- *)

\* C15: requests with the same (route, method, caller, idempotency key)
\* derive the same cache key, requests that differ in one of the four derive
\* different cache keys, and a lookup never finds a record written by a
\* request with a different tuple.
C15_KeyPerTuple ==
    \A p, q \in Reqs :
        (KeyedReq(p) /\ KeyedReq(q)) =>
            /\ SameTuple(p, q) => Key(p) = Key(q)
            /\ ~SameTuple(p, q) => Key(p) # Key(q)
            /\ value_from_cache[q] # None =>
                 (Val(value_from_cache[q])[2].content[2] = p => SameTuple(p, q))

(* ------------------------------- C16 ----------------------------------- *)

\* The operations a keyed request makes inside its with block.
SectionOps == {"get", "view", "set"}

\* Request r makes a lookup, a view call or a write in this step.
ActsInSection(r) ==
    /\ Len(log'[r]) = Len(log[r]) + 1
    /\ log'[r][Len(log'[r])] \in SectionOps

\* Request r owns the lock it entered: the RLock object lock() gave it, or
\* the redis key of its cache key's name with its own token and a running
\* lease.
HoldsLock(r) ==
    IF lockClass = "ThreadLock"
    THEN <<ThreadLockObject(r, LockName(Key(r))), r>> \in rlocks
    ELSE \E l \in redisLocks :
             l.name = <<"Idempotency_", Key(r)>> /\ l.token = r /\ l.age < LOCK_TTL

\* The operations of r so far are, in this order: the lock grant, the
\* lookup, the view call, the write, the release; the release may come after
\* any of the three in between, and nothing comes after it.
InProgramOrder(r) ==
    /\ \A i \in DOMAIN log[r] :
         /\ i = 1 => log[r][i] = "lock"
         /\ i = 2 => log[r][i] = "get"
         /\ i = 3 => log[r][i] \in {"view", "unlock"}
         /\ i = 4 => log[r][i] \in {"set", "unlock"}
         /\ i = 5 => log[r][i] = "unlock"
         /\ (i > 1 /\ log[r][i - 1] = "unlock") => FALSE
    /\ Len(log[r]) <= 5

\* C16 as stated: every lookup, view call and write of a request with a key
\* is made while the request holds the lock.
C16_SectionUnderLock ==
    [][\A r \in Reqs : (KeyedReq(r) /\ ActsInSection(r)) => HoldsLock(r)]_vars

\* C16 amended: every lookup, view call and write of a request with a key
\* comes after its lock was granted and before its release, in program
\* order; under ThreadLock the request owns its lock object all the while.
C16_SectionInsideWith ==
    \A r \in Reqs :
        KeyedReq(r) =>
            /\ InProgramOrder(r)
            /\ pc[r] \in {"get", "view", "set", "exit"} =>
                 (Did(r, "lock") /\ ~Did(r, "unlock"))
            /\ (lockClass = "ThreadLock" /\ pc[r] \in {"get", "view", "set", "exit"}) =>
                 HoldsLock(r)
            /\ \A k \in CacheKeys :
                 (cache[k] # None /\ Writer(Val(cache[k]).value) = r) =>
                     (k = Key(r) /\ Did(r, "set"))

\* Under RedisLock a request made its lookup, its view call and its write
\* and found at the release that its lease had run out.
C16_Witness ==
    \E r \in Reqs :
        /\ lockClass = "RedisLock"
        /\ KeyedReq(r) /\ Done(r)
        /\ log[r] = <<"lock", "get", "view", "set", "unlock">>
        /\ raised[r] = Some("LockNotOwnedError")

(* ------------------------------- C17 ----------------------------------- *)

\* The request whose view call produced the response of a stored or looked
\* up pair <<hash, response>>.
Producer(pair) == pair[2].content[2]

\* The pair is whole and is the one its producer passed to set: the hash of
\* the producer's body with the response the producer stored and returned.
PairOfProducer(pair) ==
    /\ Len(pair) = 2
    /\ Producer(pair) \in Reqs
    /\ Did(Producer(pair), "set")
    /\ pair[1] = <<"sha256", req[Producer(pair)].body>>
    /\ Some(pair[2]) = response[Producer(pair)]

\* The pair a cache entry's byte string decodes to.
Unpickled(bytes) ==
    <<bytes[2], [status_code |-> bytes[3], headers |-> bytes[4],
                 content |-> bytes[5], rendered |-> bytes[6]]>>

\* C17: every record in a store, and every record a lookup returned, is a
\* whole pair of the body hash of one request and the response that
\* request's view call produced.
C17_RecordPairing ==
    /\ \A k \in CacheKeys :
         cache[k] # None =>
             /\ Len(Val(cache[k]).value) = 6
             /\ PairOfProducer(Unpickled(Val(cache[k]).value))
             /\ Key(Producer(Unpickled(Val(cache[k]).value))) = k
    /\ \A m \in memory : PairOfProducer(m[3]) /\ Key(Producer(m[3])) = m[2]
    /\ \A r \in Reqs :
         value_from_cache[r] # None =>
             /\ PairOfProducer(Val(value_from_cache[r]))
             /\ Key(Producer(Val(value_from_cache[r]))) = Key(r)

\* Two requests with one cache key and different bodies have both stored a
\* record, and the store holds a record for the key.
C17_Witness ==
    \E p, q \in Reqs :
        /\ p # q
        /\ KeyedReq(p) /\ KeyedReq(q)
        /\ Key(p) = Key(q)
        /\ req[p].body # req[q].body
        /\ Did(p, "set") /\ Did(q, "set")
        /\ storageClass = "CacheKeyStorage"
        /\ cache[Key(p)] # None
        /\ p \notin before[q] /\ q \notin before[p]

(* ------------------------------- C18 ----------------------------------- *)

\* No other request has used the cache key of request r.
AloneOnKey(r) == \A t \in Reqs \ {r} : KeyedReq(t) => Key(t) # Key(r)

\* Request t, which has another cache key than r, takes a step.
OtherKeySteps(r, t) ==
    /\ t # r
    /\ KeyedReq(r)
    /\ pc'[t] # pc[t]
    /\ ~SafeMethod(req'[t].method)
    /\ req'[t].header \notin {None, Some("")}
    /\ get_cache_key(req'[t], Val(req'[t].header)) # Key(r)

\* What the stores and the locks hold for request r and its cache key.
StateOfKey(r) ==
    <<IF cache[Key(r)] = None THEN None ELSE Some(Val(cache[Key(r)]).value),
      {m \in memory : m[2] = Key(r)},
      {l \in redisLocks : l.name = <<"Idempotency_", Key(r)>>},
      {h \in rlocks : h[2] = r},
      pc[r], value_from_cache[r], response[r], returned[r], raised[r]>>

\* A request waiting for its lock is not kept waiting by requests with other
\* cache keys, however long they hold their locks, and a request that is
\* alone on its cache key ends as a first execution with its own record.
IndependentOutcome ==
    \A r \in Reqs :
        (KeyedReq(r) /\ AloneOnKey(r)) =>
            /\ pc[r] = "lock" => ENABLED (AcquireThreadLock(r) \/ AcquireRedisLock(r))
            /\ Did(r, "get") => value_from_cache[r] = None
            /\ Done(r) => ViewCalls(r) = 1
            /\ cache[Key(r)] # None => Writer(Val(cache[Key(r)]).value) = r
            /\ \A m \in memory : m[2] = Key(r) => m[3][2].content[2] = r

\* C18: requests with different cache keys are independent: a step of a
\* request with another cache key changes neither the record, nor the lock,
\* nor the progress of a request, and a request that shares its cache key
\* with no other is never blocked and ends as a first execution.
C18_KeysIndependent ==
    /\ []IndependentOutcome
    /\ [][\A r, t \in Reqs :
            OtherKeySteps(r, t) => StateOfKey(r)' = StateOfKey(r)]_vars

\* Under RedisLock two requests with different cache keys own their locks
\* at the same time.
C18_Witness ==
    \E r, t \in Reqs :
        /\ r # t
        /\ lockClass = "RedisLock"
        /\ KeyedReq(r) /\ KeyedReq(t)
        /\ Key(r) # Key(t)
        /\ pc[t] = "view" /\ OwnsLease(t)
        /\ pc[r] = "exit" /\ OwnsLease(r) /\ Did(r, "set")

(* ------------------------------- C19 ----------------------------------- *)

\* The ways an invocation ends, told by the path it took.  An invocation
\* may leave its path with an exception: the view's, or LockNotOwnedError at
\* the release of a redis lock whose lease has run out.
IsPassthrough(r) ==
    /\ SafeMethod(req[r].method)
    /\ log[r] = <<"view">>

IsMissingKeyRejection(r) ==
    /\ ~SafeMethod(req[r].method)
    /\ req[r].header \in {None, Some("")}
    /\ log[r] = <<>>
    /\ returned[r] # None
    /\ Val(returned[r]).content = <<"error", "Idempotency key is missing.">>

IsFirstExecution(r) ==
    /\ KeyedReq(r)
    /\ value_from_cache[r] = None
    /\ log[r] \in { <<"lock", "get", "view", "unlock">>,
                    <<"lock", "get", "view", "set", "unlock">> }

IsReplay(r) ==
    /\ KeyedReq(r)
    /\ value_from_cache[r] # None
    /\ Val(value_from_cache[r])[1] = <<"sha256", req[r].body>>
    /\ log[r] = <<"lock", "get", "unlock">>
    /\ raised[r] = None => returned[r] = Some(Val(value_from_cache[r])[2])

IsConflictRejection(r) ==
    /\ KeyedReq(r)
    /\ value_from_cache[r] # None
    /\ Val(value_from_cache[r])[1] # <<"sha256", req[r].body>>
    /\ log[r] = <<"lock", "get", "unlock">>
    /\ raised[r] = None =>
         /\ returned[r] # None
         /\ Val(returned[r]).content
                = <<"error", "You've already used this idempotency key.">>

\* How many of the five ways request r ended in.
OutcomeCount(r) ==
    Cardinality({i \in 1..5 :
        \/ i = 1 /\ IsPassthrough(r)
        \/ i = 2 /\ IsMissingKeyRejection(r)
        \/ i = 3 /\ IsFirstExecution(r)
        \/ i = 4 /\ IsReplay(r)
        \/ i = 5 /\ IsConflictRejection(r)})

OpCount(r, op) == Cardinality({i \in DOMAIN log[r] : log[r][i] = op})

\* No operation is made twice, and an invocation that has ended took
\* exactly one of the five ways, with one view call on a passthrough and on
\* a first execution and none otherwise.
OneOutcome ==
    \A r \in Reqs :
        /\ \A op \in {"lock", "get", "view", "set", "unlock"} : OpCount(r, op) <= 1
        /\ Done(r) =>
             /\ OutcomeCount(r) = 1
             /\ (returned[r] = None) # (raised[r] = None)
             /\ ViewCalls(r) = IF IsPassthrough(r) \/ IsFirstExecution(r) THEN 1 ELSE 0

\* C19: when every view call returns or raises and every worker goes on,
\* every request that was sent ends, in exactly one of passthrough,
\* missing-key rejection, first execution, replay and conflict rejection,
\* and no view call or store operation is repeated.
C19_OneTerminalOutcome ==
    /\ []OneOutcome
    /\ \A r \in Reqs : (pc[r] # "idle") ~> Done(r)

\* A first execution and a replay of it have both ended.
C19_Witness ==
    \E p, q \in Reqs :
        /\ p # q
        /\ Done(p) /\ IsFirstExecution(p) /\ Did(p, "set")
        /\ Done(q) /\ IsReplay(q) /\ Returned(q)
        /\ Key(q) = Key(p)

(* ------------------------------- C20 ----------------------------------- *)

\* Request r is between the grant and the release of its lock; a worker
\* that hangs in the view stays there.
Inside(r) == pc[r] \in {"get", "view", "stalled", "set", "exit"}

\* The redis key of r's lock carries r's token and its lease is running.
WithinLease(r) ==
    \E l \in redisLocks :
        l.name = <<"Idempotency_", Key(r)>> /\ l.token = r /\ l.age < LOCK_TTL

\* The lease granted to r has run out and nobody has taken the key since.
LeaseRanOut(r) ==
    \E l \in redisLocks :
        l.name = <<"Idempotency_", Key(r)>> /\ l.token = r /\ l.age >= LOCK_TTL

\* Request q is granted its lock in this step.
Granted(q) == pc[q] = "lock" /\ pc'[q] = "get"

\* C20: with RedisLock, two requests with one cache key are never inside
\* the critical section while the leases of both are running; a request
\* inside its critical section loses its lease only by the lease running
\* out; and a request is granted the lock only when no request inside the
\* critical section of that key is within its lease.
C20_ExclusiveWithinLease ==
    /\ [](lockClass = "RedisLock" =>
            \A p, q \in Reqs :
                (p # q /\ Inside(p) /\ Inside(q) /\ Key(p) = Key(q)) =>
                    ~(WithinLease(p) /\ WithinLease(q)))
    /\ [][lockClass = "RedisLock" =>
            \A p \in Reqs :
                (Inside(p) /\ WithinLease(p)) =>
                    /\ pc'[p] # "done" => (WithinLease(p)' \/ LeaseRanOut(p)')
                    /\ \A q \in Reqs \ {p} :
                         Granted(q) => Key(q) # Key(p)]_vars

\* p hangs in its view with its lease run out, and q, with the same cache
\* key, is inside the critical section within its own lease.
C20_Witness ==
    \E p, q \in Reqs :
        /\ p # q
        /\ lockClass = "RedisLock"
        /\ Stalled(p)
        /\ KeyedReq(q) /\ Key(q) = Key(p)
        /\ Inside(q) /\ WithinLease(q)
        /\ Did(q, "get")

====
